---- MODULE Spec2Model ----
(***************************************************************************)
(* TryOnAI backend: the asynchronous try-on session subsystem.             *)
(*                                                                         *)
(* State machine of the session store, the file storage, the create and    *)
(* get handlers of /api/tryon/sessions, the background worker              *)
(* (services/worker.py) and the cleanup reaper (services/cleanup.py).      *)
(* Time is counted in hours.                                               *)
(***************************************************************************)
EXTENDS Integers, FiniteSets, Sequences, TLC

\* ---------------------------------------------------------------- bounds
MaxSessions == 2        \* number of create calls explored
MaxTime     == 48       \* clock horizon explored, hours
TickHours   == 24       \* hours per clock advance
MaxFailingDeletes == 1   \* file deletes that fail for one session in a reaper run
MaxProducts == 2         \* products of the demo catalog explored
MaxCalls    == 3         \* processTryOn calls of the demo page explored

\* ---------------------------------------------------- program constants
MAX_FILE_SIZE_MB     == 10
SESSION_EXPIRY_HOURS == 24

MaxFileSizeBytes == MAX_FILE_SIZE_MB * 1024 * 1024
AllowedTypes     == {"jpg", "jpeg", "png", "webp"}

\* ------------------------------------------------------------ data model
Sessions  == 1..MaxSessions
UnknownId == 0                      \* an id no create call ever returns
AllIds    == Sessions \cup {UnknownId}

NULL_REF  == <<>>                   \* a null asset reference column
NULL_TEXT == "null"                 \* a null text column
NoRow == [status |-> "absent"]      \* no row with that id

Statuses == {"created", "processing", "completed", "failed"}

\* The uploads explored: a small valid jpg, a valid jpg of exactly the
\* maximum size, an oversized jpg, a non-image type, an undecodable png.
Images ==
  { [size |-> 1024,                 type |-> "jpg", decodes |-> TRUE],
    [size |-> MaxFileSizeBytes,     type |-> "jpg", decodes |-> TRUE],
    [size |-> MaxFileSizeBytes + 1, type |-> "jpg", decodes |-> TRUE],
    [size |-> 1024,                 type |-> "gif", decodes |-> TRUE],
    [size |-> 1024,                 type |-> "png", decodes |-> FALSE] }

\* Variant of ValidImage: the decode check (img.verify()) is left out.
ValidImage_NoVerify(img) ==
  /\ img.size <= MaxFileSizeBytes
  /\ img.type \in AllowedTypes

\* File validation: size, allowed type, decodable.
ValidImage(img) ==
  /\ img.size <= MaxFileSizeBytes
  /\ img.type \in AllowedTypes
  /\ img.decodes

\* Variant of Ref: the file name leaves out the session id.
Ref_NoSessionId(sid, role, ext) == <<0, role, ext>>

\* Asset reference: path keyed by session id, role and extension.
Ref(sid, role, ext) == <<sid, role, ext>>

\* Failure reasons the worker can store.
GenericStorageReason == "Processing failed due to a storage error"
DomainReasons == {"Unable to detect person in image"}
FailureReasons == {GenericStorageReason} \cup DomainReasons

VARIABLES
  now,          \* wall clock, hours
  nextId,       \* next session id a create call will generate
  store,        \* tryon_sessions table: id -> row or NoRow
  storage,      \* set of asset references present under uploads/
  cpc,          \* position of the create handler of each session id
  creq,         \* uploads held by the create handler while it runs
  createResp,   \* response of the create call of each session id
  wpc,          \* position of the worker invocation of each session id
  rpc,          \* position of the cleanup reaper
  rbatch,       \* rows the running reaper still has to clean
  rcur,         \* id whose files the reaper has deleted, row still to delete
  rmatched,     \* result of the expiry query of the running reaper
  backend,      \* database engine chosen at startup, "none" before startup
  lastHealth,   \* answer of the health call being returned, NoHealth if none is
  lastGet,      \* answer of the get call being returned, NoGet if none is
  userFile,          \* demo page: a photo File is held (userFile, userFileRef)
  pendingTryOnRef,   \* demo page: product waiting for a photo, NoProduct if none
  processingProduct, \* demo page: id of the product shown as processing
  results,           \* demo page: products that have a try-on result
  timers,            \* demo page: products whose processTryOn a setTimeout holds
  tryOnCalls         \* demo page: the processTryOn calls made, in order

\* The state of the backend process.
serverVars == <<now, nextId, store, storage, cpc, creq, createResp, wpc, rpc, rbatch, rcur,
                rmatched, backend, lastHealth, lastGet>>

\* The state of the demo page (DemoPage component).
demoVars == <<userFile, pendingTryOnRef, processingProduct, results, timers, tryOnCalls>>

vars == <<now, nextId, store, storage, cpc, creq, createResp, wpc, rpc, rbatch, rcur,
          rmatched, backend, lastHealth, lastGet, demoVars>>

\* The products of the catalog explored, and the value of a null product.
Products  == 1..MaxProducts
NoProduct == 0

NoReq == [user |-> NULL_REF, garment |-> NULL_REF]
NoGet == [kind |-> "none", id |-> UnknownId]
NoHealth == [kind |-> "none"]

\* The two database engines: the primary and the local fallback.
Backends == {"postgresql", "sqlite"}

\* The process after a startup that reached the primary engine; no session yet.
Init ==
  /\ now = 0
  /\ nextId = 1
  /\ store = [s \in Sessions |-> NoRow]
  /\ storage = {}
  /\ cpc = [s \in Sessions |-> "idle"]
  /\ creq = [s \in Sessions |-> NoReq]
  /\ createResp = [s \in Sessions |-> "none"]
  /\ wpc = [s \in Sessions |-> "none"]
  /\ rpc = "idle"
  /\ rbatch = {}
  /\ rcur = 0
  /\ rmatched = {}
  /\ backend = "postgresql"
  /\ lastHealth = NoHealth
  /\ lastGet = NoGet
  /\ userFile = FALSE
  /\ pendingTryOnRef = NoProduct
  /\ processingProduct = NoProduct
  /\ results = {}
  /\ timers = {}
  /\ tryOnCalls = <<>>

\* The process before create_database_engine() has run.
InitBoot ==
  /\ now = 0
  /\ nextId = 1
  /\ store = [s \in Sessions |-> NoRow]
  /\ storage = {}
  /\ cpc = [s \in Sessions |-> "idle"]
  /\ creq = [s \in Sessions |-> NoReq]
  /\ createResp = [s \in Sessions |-> "none"]
  /\ wpc = [s \in Sessions |-> "none"]
  /\ rpc = "idle"
  /\ rbatch = {}
  /\ rcur = 0
  /\ rmatched = {}
  /\ backend = "none"
  /\ lastHealth = NoHealth
  /\ lastGet = NoGet
  /\ userFile = FALSE
  /\ pendingTryOnRef = NoProduct
  /\ processingProduct = NoProduct
  /\ results = {}
  /\ timers = {}
  /\ tryOnCalls = <<>>

\* ---------------------------------------------------------------- startup
\* Variant of CreateDatabaseEngine: no fallback, a failed connection ends
\* the process.
CreateDatabaseEngine_NoFallback(pgReachable) ==
  IF pgReachable THEN "postgresql" ELSE "crashed"

\* create_database_engine(): try PostgreSQL, fall back to SQLite.
CreateDatabaseEngine(pgReachable) ==
  IF pgReachable THEN "postgresql" ELSE "sqlite"

Startup(pgReachable) ==
  /\ backend = "none"
  /\ backend' = CreateDatabaseEngine(pgReachable)
  /\ UNCHANGED <<now, nextId, store, storage, cpc, creq, createResp, wpc, rpc, rbatch, rcur,
                 rmatched, lastHealth, lastGet, demoVars>>

\* Variant of CheckDbHealth: the probe reports the engine it can reach now.
CheckDbHealth_Reprobes(pgReachable) ==
  [ kind      |-> "ok",
    type      |-> IF pgReachable THEN "postgresql" ELSE "sqlite",
    connected |-> TRUE ]

\* check_db_health(): type of the engine in use and whether it answers.
CheckDbHealth(pgReachable) ==
  [ kind      |-> "ok",
    type      |-> backend,
    connected |-> (backend = "sqlite" \/ pgReachable) ]

\* GET /api/health
Health(pgReachable) ==
  /\ backend \in Backends
  /\ lastHealth = NoHealth
  /\ lastHealth' = CheckDbHealth(pgReachable)
  /\ UNCHANGED <<now, nextId, store, storage, cpc, creq, createResp, wpc, rpc, rbatch, rcur,
                 rmatched, backend, lastGet, demoVars>>

\* The health answer is handed to the caller.
HealthReturn ==
  /\ lastHealth # NoHealth
  /\ lastHealth' = NoHealth
  /\ UNCHANGED <<now, nextId, store, storage, cpc, creq, createResp, wpc, rpc, rbatch, rcur,
                 rmatched, backend, lastGet, demoVars>>

\* ------------------------------------------------------------------ clock
\* The clock granule is far longer than a request: no create handler is
\* in the middle of its steps when the clock advances.
Tick ==
  /\ now + TickHours <= MaxTime
  /\ \A s \in Sessions : cpc[s] \in {"idle", "done"}
  /\ now' = now + TickHours
  /\ UNCHANGED <<nextId, store, storage, cpc, creq, createResp, wpc, rpc, rbatch, rcur, lastGet, rmatched, backend,
               lastHealth, demoVars>>

\* ------------------------------------------------- session store helpers
\* Variant of NewRow: the expiry is the creation time, a zero lifetime.
NewRow_ZeroTtl(sid, userImg, garmentImg) ==
  [ status            |-> "created",
    user_image_ref    |-> Ref(sid, "user", userImg.type),
    garment_image_ref |-> Ref(sid, "garment", garmentImg.type),
    output_image_ref  |-> NULL_REF,
    error_reason      |-> NULL_TEXT,
    created_at        |-> now,
    expires_at        |-> now ]

\* The row written by create: status created, references of both inputs,
\* expires_at = created_at + SESSION_EXPIRY_HOURS.
NewRow(sid, userImg, garmentImg) ==
  [ status            |-> "created",
    user_image_ref    |-> Ref(sid, "user", userImg.type),
    garment_image_ref |-> Ref(sid, "garment", garmentImg.type),
    output_image_ref  |-> NULL_REF,
    error_reason      |-> NULL_TEXT,
    created_at        |-> now,
    expires_at        |-> now + SESSION_EXPIRY_HOURS ]

\* Variant of UpdateStatus: the write of a missing row inserts it again.
UpdateStatus_Upserts(sid, status, outputRef, reason) ==
  IF store[sid] = NoRow
    THEN [store EXCEPT ![sid] = [ status            |-> status,
                                  user_image_ref    |-> NULL_REF,
                                  garment_image_ref |-> NULL_REF,
                                  output_image_ref  |-> outputRef,
                                  error_reason      |-> reason,
                                  created_at        |-> now,
                                  expires_at        |-> now + SESSION_EXPIRY_HOURS ]]
    ELSE [store EXCEPT ![sid] = [@ EXCEPT !.status           = status,
                                          !.output_image_ref = outputRef,
                                          !.error_reason     = reason]]

\* Variant of UpdateStatus: every write of a row renews its expiry.
UpdateStatus_ExtendsExpiry(sid, status, outputRef, reason) ==
  IF store[sid] = NoRow
    THEN store
    ELSE [store EXCEPT ![sid] = [@ EXCEPT !.status           = status,
                                          !.output_image_ref = outputRef,
                                          !.error_reason     = reason,
                                          !.expires_at       = now + SESSION_EXPIRY_HOURS + 1]]

\* Variant of UpdateStatus: the UPDATE has no WHERE clause on the id, it
\* writes every row of the table.
UpdateStatus_NoWhere(sid, status, outputRef, reason) ==
  [t \in Sessions |->
     IF store[t] = NoRow
       THEN NoRow
       ELSE [store[t] EXCEPT !.status           = status,
                             !.output_image_ref = outputRef,
                             !.error_reason     = reason]]

\* One atomic UPDATE of a row; an UPDATE of a missing row changes nothing.
UpdateStatus(sid, status, outputRef, reason) ==
  IF store[sid] = NoRow
    THEN store
    ELSE [store EXCEPT ![sid] = [@ EXCEPT !.status           = status,
                                          !.output_image_ref = outputRef,
                                          !.error_reason     = reason]]

\* The non-null asset references of a row.
RowRefs(row) ==
  {row.user_image_ref, row.garment_image_ref, row.output_image_ref} \ {NULL_REF}

\* ------------------------------------------- POST /api/tryon/sessions
\* Validation of both uploads, then the row is written with status created.
CreateSession(s, userImg, garmentImg) ==
  /\ s = nextId
  /\ s \in Sessions
  /\ cpc[s] = "idle"
  /\ nextId' = nextId + 1
  /\ IF ValidImage(userImg) /\ ValidImage(garmentImg)
       THEN /\ store' = [store EXCEPT ![s] = NewRow(s, userImg, garmentImg)]
            /\ creq' = [creq EXCEPT ![s] = [user    |-> Ref(s, "user", userImg.type),
                                            garment |-> Ref(s, "garment", garmentImg.type)]]
            /\ cpc' = [cpc EXCEPT ![s] = "row"]
            /\ UNCHANGED createResp
       ELSE /\ createResp' = [createResp EXCEPT ![s] = "ValidationError"]
            /\ cpc' = [cpc EXCEPT ![s] = "done"]
            /\ UNCHANGED <<store, creq>>
  /\ UNCHANGED <<now, storage, wpc, rpc, rbatch, rcur, lastGet, rmatched, backend,
               lastHealth, demoVars>>

CreateSaveUser(s) ==
  /\ cpc[s] = "row"
  /\ storage' = storage \cup {creq[s].user}
  /\ cpc' = [cpc EXCEPT ![s] = "user"]
  /\ UNCHANGED <<now, nextId, store, creq, createResp, wpc, rpc, rbatch, rcur, lastGet, rmatched, backend,
               lastHealth, demoVars>>

CreateSaveGarment(s) ==
  /\ cpc[s] = "user"
  /\ storage' = storage \cup {creq[s].garment}
  /\ cpc' = [cpc EXCEPT ![s] = "garment"]
  /\ UNCHANGED <<now, nextId, store, creq, createResp, wpc, rpc, rbatch, rcur, lastGet, rmatched, backend,
               lastHealth, demoVars>>

\* Variant of CreateSaveFail: the tentative row is left in the store.
CreateSaveFail_KeepsRow(s) ==
  /\ cpc[s] \in {"row", "user"}
  /\ createResp' = [createResp EXCEPT ![s] = "StorageError"]
  /\ creq' = [creq EXCEPT ![s] = NoReq]
  /\ cpc' = [cpc EXCEPT ![s] = "done"]
  /\ UNCHANGED <<now, nextId, store, storage, wpc, rpc, rbatch, rcur, lastGet, rmatched, backend,
               lastHealth, demoVars>>

\* Saving an input asset fails: the tentative row is removed.
CreateSaveFail(s) ==
  /\ cpc[s] \in {"row", "user"}
  /\ store' = [store EXCEPT ![s] = NoRow]
  /\ createResp' = [createResp EXCEPT ![s] = "StorageError"]
  /\ creq' = [creq EXCEPT ![s] = NoReq]
  /\ cpc' = [cpc EXCEPT ![s] = "done"]
  /\ UNCHANGED <<now, nextId, storage, wpc, rpc, rbatch, rcur, lastGet, rmatched, backend,
               lastHealth, demoVars>>

\* Variant of CreateDispatch: the task is queued right after the row is
\* written, before the uploads are saved.
CreateDispatch_BeforeSave(s) ==
  /\ cpc[s] = "row"
  /\ wpc' = [wpc EXCEPT ![s] = "queued"]
  /\ cpc' = [cpc EXCEPT ![s] = "dispatched"]
  /\ UNCHANGED <<now, nextId, store, storage, creq, createResp, rpc, rbatch, rcur, lastGet,
                 rmatched, backend, lastHealth, demoVars>>

\* Variant of CreateDispatch: the handler goes on without queueing the task.
CreateDispatch_Forgets(s) ==
  /\ cpc[s] = "garment"
  /\ cpc' = [cpc EXCEPT ![s] = "dispatched"]
  /\ UNCHANGED <<now, nextId, store, storage, creq, createResp, wpc, rpc, rbatch, rcur, lastGet,
                 rmatched, backend, lastHealth, demoVars>>

\* BackgroundTask: the session id is handed to the worker.
CreateDispatch(s) ==
  /\ cpc[s] = "garment"
  /\ wpc' = [wpc EXCEPT ![s] = "queued"]
  /\ cpc' = [cpc EXCEPT ![s] = "dispatched"]
  /\ UNCHANGED <<now, nextId, store, storage, creq, createResp, rpc, rbatch, rcur, lastGet, rmatched, backend,
               lastHealth, demoVars>>

\* Variant of CreateRespond: the handler awaits the worker before answering.
CreateRespond_Waits(s) ==
  /\ cpc[s] = "dispatched"
  /\ wpc[s] = "done"
  /\ createResp' = [createResp EXCEPT ![s] = "created"]
  /\ creq' = [creq EXCEPT ![s] = NoReq]
  /\ cpc' = [cpc EXCEPT ![s] = "done"]
  /\ UNCHANGED <<now, nextId, store, storage, wpc, rpc, rbatch, rcur, lastGet, rmatched, backend,
               lastHealth, demoVars>>

\* Variant of CreateRespond: a session that has already failed is answered
\* with the processing error.
CreateRespond_Propagates(s) ==
  /\ cpc[s] = "dispatched"
  /\ createResp' = [createResp EXCEPT ![s] =
                      IF store[s] # NoRow /\ store[s].status = "failed"
                        THEN "ProcessingError" ELSE "created"]
  /\ creq' = [creq EXCEPT ![s] = NoReq]
  /\ cpc' = [cpc EXCEPT ![s] = "done"]
  /\ UNCHANGED <<now, nextId, store, storage, wpc, rpc, rbatch, rcur, lastGet, rmatched, backend,
               lastHealth, demoVars>>

\* Response 201 {session_id, status: created}.
CreateRespond(s) ==
  /\ cpc[s] = "dispatched"
  /\ createResp' = [createResp EXCEPT ![s] = "created"]
  /\ creq' = [creq EXCEPT ![s] = NoReq]
  /\ cpc' = [cpc EXCEPT ![s] = "done"]
  /\ UNCHANGED <<now, nextId, store, storage, wpc, rpc, rbatch, rcur, lastGet, rmatched, backend,
               lastHealth, demoVars>>

\* Variant of WorkerStart: the processing status is never written.
WorkerStart_SkipsProcessing(s) ==
  /\ wpc[s] = "queued"
  /\ wpc' = [wpc EXCEPT ![s] = IF store[s] = NoRow THEN "done" ELSE "started"]
  /\ UNCHANGED <<now, nextId, store, storage, cpc, creq, createResp, rpc, rbatch, rcur, lastGet, rmatched, backend,
               lastHealth, demoVars>>

\* -------------------------------------- worker.process_session(session_id)
WorkerStart(s) ==
  /\ wpc[s] = "queued"
  /\ store' = UpdateStatus(s, "processing", NULL_REF, NULL_TEXT)
  /\ wpc' = [wpc EXCEPT ![s] = IF store[s] = NoRow THEN "done" ELSE "started"]
  /\ UNCHANGED <<now, nextId, storage, cpc, creq, createResp, rpc, rbatch, rcur, lastGet, rmatched, backend,
               lastHealth, demoVars>>

\* Variant of WorkerFailDomain: the text of the exception is stored.
WorkerFailDomain_LeaksDetail(s, reason) ==
  /\ wpc[s] = "started"
  /\ reason \in DomainReasons
  /\ store' = UpdateStatus(s, "failed", NULL_REF, "ValueError: no person found in uploads/users")
  /\ wpc' = [wpc EXCEPT ![s] = "done"]
  /\ UNCHANGED <<now, nextId, storage, cpc, creq, createResp, rpc, rbatch, rcur, lastGet,
                 rmatched, backend, lastHealth, demoVars>>

\* Variant of WorkerFailDomain: the failed session is queued again.
WorkerFailDomain_Retries(s, reason) ==
  /\ wpc[s] = "started"
  /\ reason \in DomainReasons
  /\ store' = UpdateStatus(s, "failed", NULL_REF, reason)
  /\ wpc' = [wpc EXCEPT ![s] = "queued"]
  /\ UNCHANGED <<now, nextId, storage, cpc, creq, createResp, rpc, rbatch, rcur, lastGet, rmatched, backend,
               lastHealth, demoVars>>

\* Simulated domain failure: terminal write failed + reason.
WorkerFailDomain(s, reason) ==
  /\ wpc[s] = "started"
  /\ reason \in DomainReasons
  /\ store' = UpdateStatus(s, "failed", NULL_REF, reason)
  /\ wpc' = [wpc EXCEPT ![s] = "done"]
  /\ UNCHANGED <<now, nextId, storage, cpc, creq, createResp, rpc, rbatch, rcur, lastGet, rmatched, backend,
               lastHealth, demoVars>>

\* Variant of WorkerSaveOutput: the output reference is written to the row
\* when the file is saved, before the terminal write.
WorkerSaveOutput_WritesRef(s) ==
  /\ wpc[s] = "started"
  /\ \E ext \in AllowedTypes : Ref(s, "user", ext) \in storage
  /\ storage' = storage \cup {Ref(s, "output", "jpg")}
  /\ store' = IF store[s] = NoRow THEN store
              ELSE [store EXCEPT ![s].output_image_ref = Ref(s, "output", "jpg")]
  /\ wpc' = [wpc EXCEPT ![s] = "saved"]
  /\ UNCHANGED <<now, nextId, cpc, creq, createResp, rpc, rbatch, rcur, lastGet, rmatched, backend,
               lastHealth, demoVars>>

\* The user photo is copied as the output image.
WorkerSaveOutput(s) ==
  /\ wpc[s] = "started"
  /\ \E ext \in AllowedTypes : Ref(s, "user", ext) \in storage
  /\ storage' = storage \cup {Ref(s, "output", "jpg")}
  /\ wpc' = [wpc EXCEPT ![s] = "saved"]
  /\ UNCHANGED <<now, nextId, store, cpc, creq, createResp, rpc, rbatch, rcur, lastGet, rmatched, backend,
               lastHealth, demoVars>>

\* Variant of WorkerStorageFail: the exception ends the task, nothing is
\* written.
WorkerStorageFail_StaysProcessing(s) ==
  /\ wpc[s] = "started"
  /\ wpc' = [wpc EXCEPT ![s] = "done"]
  /\ UNCHANGED <<now, nextId, store, storage, cpc, creq, createResp, rpc, rbatch, rcur, lastGet,
                 rmatched, backend, lastHealth, demoVars>>

\* Variant of WorkerStorageFail: the detail is only logged, no reason stored.
WorkerStorageFail_NoReason(s) ==
  /\ wpc[s] = "started"
  /\ store' = UpdateStatus(s, "failed", NULL_REF, NULL_TEXT)
  /\ wpc' = [wpc EXCEPT ![s] = "done"]
  /\ UNCHANGED <<now, nextId, storage, cpc, creq, createResp, rpc, rbatch, rcur, lastGet, rmatched, backend,
               lastHealth, demoVars>>

\* Writing the output fails: terminal write failed + generic reason.
WorkerStorageFail(s) ==
  /\ wpc[s] = "started"
  /\ store' = UpdateStatus(s, "failed", NULL_REF, GenericStorageReason)
  /\ wpc' = [wpc EXCEPT ![s] = "done"]
  /\ UNCHANGED <<now, nextId, storage, cpc, creq, createResp, rpc, rbatch, rcur, lastGet, rmatched, backend,
               lastHealth, demoVars>>

\* Variant of WorkerComplete: the status is written first and the output
\* reference in a second update.
WorkerComplete_TwoWrites(s) ==
  /\ wpc[s] = "saved"
  /\ IF store[s] # NoRow /\ store[s].status = "processing"
       THEN /\ store' = [store EXCEPT ![s].status = "completed"]
            /\ UNCHANGED wpc
       ELSE /\ store' = UpdateStatus(s, "completed", Ref(s, "output", "jpg"), NULL_TEXT)
            /\ wpc' = [wpc EXCEPT ![s] = "done"]
  /\ UNCHANGED <<now, nextId, storage, cpc, creq, createResp, rpc, rbatch, rcur, lastGet, rmatched,
                 backend, lastHealth, demoVars>>

\* Variant of WorkerComplete: the task ends after saving the output, the
\* terminal state is never written.
WorkerComplete_NoTerminalWrite(s) ==
  /\ wpc[s] = "saved"
  /\ wpc' = [wpc EXCEPT ![s] = "done"]
  /\ UNCHANGED <<now, nextId, store, storage, cpc, creq, createResp, rpc, rbatch, rcur, lastGet,
                 rmatched, backend, lastHealth, demoVars>>

\* Terminal write completed + output reference.
WorkerComplete(s) ==
  /\ wpc[s] = "saved"
  /\ store' = UpdateStatus(s, "completed", Ref(s, "output", "jpg"), NULL_TEXT)
  /\ wpc' = [wpc EXCEPT ![s] = "done"]
  /\ UNCHANGED <<now, nextId, storage, cpc, creq, createResp, rpc, rbatch, rcur, lastGet, rmatched, backend,
               lastHealth, demoVars>>

\* ------------------------------------------- cleanup_expired_sessions
\* Variant of Expired: a row is taken as expired at the hour it expires.
Expired_Inclusive(row) == row # NoRow /\ row.expires_at <= now

\* Query condition of the reaper: expires_at < now().
Expired(row) == row # NoRow /\ row.expires_at < now

\* Query sessions where expires_at < now(): the rows with their references.
ExpiredRows ==
  {[sid |-> s, refs |-> RowRefs(store[s])] : s \in {x \in Sessions : Expired(store[x])}}

ReaperQuery ==
  /\ rpc = "idle"
  /\ rbatch' = ExpiredRows
  /\ rmatched' = ExpiredRows
  /\ rpc' = "run"
  /\ UNCHANGED <<now, nextId, store, storage, cpc, creq, createResp, wpc, rcur, lastGet, backend,
               lastHealth, demoVars>>

\* Variant of StorageDelete: a missing file is an error and ends the call
\* before anything is deleted.
StorageDelete_RaisesOnMissing(files, refs, failing) ==
  IF refs \subseteq files
    THEN [files |-> files \ (refs \ failing), error |-> FALSE]
    ELSE [files |-> files, error |-> TRUE]

\* storage delete(refs): every present file of refs is removed, except
\* those in failing; a missing file is only logged.
StorageDelete(files, refs, failing) ==
  [files |-> files \ (refs \ failing), error |-> FALSE]

\* Variant of ReaperDeleteFiles: a file delete that fails ends the run.
ReaperDeleteFiles_AbortsOnFailure(e, failing) ==
  /\ rpc = "run"
  /\ rcur = 0
  /\ e \in rbatch
  /\ failing \subseteq (e.refs \cap storage)
  /\ Cardinality(failing) <= MaxFailingDeletes
  /\ storage' = StorageDelete(storage, e.refs, failing).files
  /\ IF failing = {}
       THEN /\ rcur' = e.sid
            /\ UNCHANGED <<rpc, rbatch, rmatched>>
       ELSE /\ rpc' = "idle"
            /\ rbatch' = {}
            /\ rmatched' = {}
            /\ UNCHANGED rcur
  /\ UNCHANGED <<now, nextId, store, cpc, creq, createResp, wpc, lastGet, backend, lastHealth, demoVars>>

\* Variant of ReaperDeleteFiles: the whole uploads directory is emptied.
ReaperDeleteFiles_AllFiles(e, failing) ==
  /\ rpc = "run"
  /\ rcur = 0
  /\ e \in rbatch
  /\ failing \subseteq (e.refs \cap storage)
  /\ Cardinality(failing) <= MaxFailingDeletes
  /\ storage' = failing
  /\ rcur' = e.sid
  /\ UNCHANGED <<now, nextId, store, cpc, creq, createResp, wpc, rpc, rbatch, lastGet, rmatched, backend,
               lastHealth, demoVars>>

\* Variant of ReaperDeleteFiles: a session one of whose files is already
\* missing is skipped, its row is not deleted.
ReaperDeleteFiles_SkipsOnMissing(e, failing) ==
  /\ rpc = "run"
  /\ rcur = 0
  /\ e \in rbatch
  /\ failing \subseteq (e.refs \cap storage)
  /\ Cardinality(failing) <= MaxFailingDeletes
  /\ IF e.refs \subseteq storage
       THEN /\ storage' = StorageDelete(storage, e.refs, failing).files
            /\ rcur' = e.sid
            /\ UNCHANGED rbatch
       ELSE /\ rbatch' = rbatch \ {e}
            /\ UNCHANGED <<storage, rcur>>
  /\ UNCHANGED <<now, nextId, store, cpc, creq, createResp, wpc, rpc, lastGet, rmatched, backend,
               lastHealth, demoVars>>

\* Best-effort deletion of the files of one session; the deletes in
\* failing do not happen and are only logged.
ReaperDeleteFiles(e, failing) ==
  /\ rpc = "run"
  /\ rcur = 0
  /\ e \in rbatch
  /\ failing \subseteq (e.refs \cap storage)
  /\ Cardinality(failing) <= MaxFailingDeletes
  /\ storage' = StorageDelete(storage, e.refs, failing).files
  /\ rcur' = e.sid
  /\ UNCHANGED <<now, nextId, store, cpc, creq, createResp, wpc, rpc, rbatch, lastGet, rmatched, backend,
               lastHealth, demoVars>>

\* Variant of ReaperDeleteRow: the files are deleted but the row is kept.
ReaperDeleteRow_KeepsRow ==
  /\ rpc = "run"
  /\ rcur # 0
  /\ rbatch' = {e \in rbatch : e.sid # rcur}
  /\ rcur' = 0
  /\ UNCHANGED <<now, nextId, store, storage, cpc, creq, createResp, wpc, rpc, lastGet, rmatched, backend,
               lastHealth, demoVars>>

ReaperDeleteRow ==
  /\ rpc = "run"
  /\ rcur # 0
  /\ store' = [store EXCEPT ![rcur] = NoRow]
  /\ rbatch' = {e \in rbatch : e.sid # rcur}
  /\ rcur' = 0
  /\ UNCHANGED <<now, nextId, storage, cpc, creq, createResp, wpc, rpc, lastGet, rmatched, backend,
               lastHealth, demoVars>>

ReaperFinish ==
  /\ rpc = "run"
  /\ rcur = 0
  /\ rbatch = {}
  /\ rpc' = "idle"
  /\ rmatched' = {}
  /\ UNCHANGED <<now, nextId, store, storage, cpc, creq, createResp, wpc, rbatch, rcur, lastGet, backend,
               lastHealth, demoVars>>

\* The process stops in the middle of a run; the next run starts afresh.
ReaperCrash ==
  /\ rpc = "run"
  /\ rpc' = "idle"
  /\ rbatch' = {}
  /\ rcur' = 0
  /\ rmatched' = {}
  /\ UNCHANGED <<now, nextId, store, storage, cpc, creq, createResp, wpc, lastGet, backend,
               lastHealth, demoVars>>

\* ------------------------------------ GET /api/tryon/sessions/{session_id}
ProgressMessage(status) ==
  CASE status = "created"    -> "Session created, waiting for processing..."
    [] status = "processing" -> "AI is processing your try-on..."
    [] status = "completed"  -> "Try-on completed successfully!"
    [] status = "failed"     -> "Processing failed. Please try again."

\* Relative path to absolute URL on the serving origin; null stays null.
ToUrl(ref) == IF ref = NULL_REF THEN NULL_REF ELSE <<"base_url", "uploads">> \o ref

\* Variant of SessionView: a failed session shows its error reason as the
\* progress message.
SessionView_ReasonAsMessage(sid, row) ==
  [ kind              |-> "ok",
    id                |-> sid,
    status            |-> row.status,
    user_image_url    |-> ToUrl(row.user_image_ref),
    garment_image_url |-> ToUrl(row.garment_image_ref),
    output_image_url  |-> ToUrl(row.output_image_ref),
    error_reason      |-> row.error_reason,
    progress_message  |-> IF row.status = "failed" THEN row.error_reason
                          ELSE ProgressMessage(row.status) ]

SessionView(sid, row) ==
  [ kind              |-> "ok",
    id                |-> sid,
    status            |-> row.status,
    user_image_url    |-> ToUrl(row.user_image_ref),
    garment_image_url |-> ToUrl(row.garment_image_ref),
    output_image_url  |-> ToUrl(row.output_image_ref),
    error_reason      |-> row.error_reason,
    progress_message  |-> ProgressMessage(row.status) ]

\* Variant of GetSession: an expired row is reported as not found.
GetSession_HidesExpired(sid) ==
  IF sid \in Sessions /\ store[sid] # NoRow /\ ~(store[sid].expires_at < now)
    THEN SessionView(sid, store[sid])
    ELSE [kind |-> "NotFoundError", id |-> sid]

GetSession(sid) ==
  IF sid \in Sessions /\ store[sid] # NoRow
    THEN SessionView(sid, store[sid])
    ELSE [kind |-> "NotFoundError", id |-> sid]

\* Variant of Get: a get of an expired session removes its row (lazy expiry).
Get_ReapsExpired(sid) ==
  /\ sid \in AllIds
  /\ lastGet' = GetSession(sid)
  /\ store' = IF sid \in Sessions /\ Expired(store[sid])
                THEN [store EXCEPT ![sid] = NoRow]
                ELSE store
  /\ UNCHANGED <<now, nextId, storage, cpc, creq, createResp, wpc, rpc, rbatch, rcur, rmatched,
                 backend, lastHealth, demoVars>>

\* The handler reads the row and builds the answer in one step.
Get(sid) ==
  /\ sid \in AllIds
  /\ lastGet' = GetSession(sid)
  /\ UNCHANGED <<now, nextId, store, storage, cpc, creq, createResp, wpc, rpc, rbatch, rcur, rmatched, backend,
               lastHealth, demoVars>>

\* The answer is handed to the caller.
GetReturn ==
  /\ lastGet # NoGet
  /\ lastGet' = NoGet
  /\ UNCHANGED <<now, nextId, store, storage, cpc, creq, createResp, wpc, rpc, rbatch, rcur, rmatched, backend,
               lastHealth, demoVars>>

\* ------------------------------------------- demo page (app/demo/page.tsx)
\* The processTryOn calls that have started and not yet reached the end of
\* their finally block.
InFlight == {c \in 1..Len(tryOnCalls) : tryOnCalls[c].pc # "done"}

\* processTryOn(product, photoFile) up to its first await: without a photo
\* the product is kept as pending and the call returns; with one the
\* product is marked as processing and the garment image is fetched.
ProcessTryOn(product, photoFile) ==
  IF ~(photoFile \/ userFile)
    THEN /\ pendingTryOnRef' = product
         /\ UNCHANGED <<processingProduct, tryOnCalls>>
    ELSE /\ Len(tryOnCalls) < MaxCalls
         /\ processingProduct' = product
         /\ tryOnCalls' = Append(tryOnCalls, [product |-> product, pc |-> "fetch"])
         /\ UNCHANGED pendingTryOnRef

\* The Try On button of a product is rendered, and enabled, unless
\* isProcessing, that is processingProduct === product.id.
TryOnButtonEnabled(product) == processingProduct # product

\* handleTryOn(product): click on the Try On button of a card or the modal.
HandleTryOn(product) ==
  /\ TryOnButtonEnabled(product)
  /\ IF ~userFile
       THEN /\ pendingTryOnRef' = product
            /\ UNCHANGED <<processingProduct, tryOnCalls>>
       ELSE ProcessTryOn(product, FALSE)
  /\ UNCHANGED <<userFile, results, timers, serverVars>>

\* The file checks of both file inputs: an image type, at most 10 MB.
\* Every upload explored has an image type.
PhotoAccepted(img) == img.size <= 10 * 1024 * 1024

\* handlePhotoSelect(file, previewUrl), called by the PhotoUpload banner for
\* an accepted file: the photo is kept, and the processTryOn of a pending
\* product is scheduled with setTimeout.
HandlePhotoSelect(img) ==
  /\ PhotoAccepted(img)
  /\ userFile' = TRUE
  /\ IF pendingTryOnRef # NoProduct
       THEN /\ timers' = timers \cup {pendingTryOnRef}
            /\ pendingTryOnRef' = NoProduct
       ELSE UNCHANGED <<timers, pendingTryOnRef>>
  /\ UNCHANGED <<processingProduct, results, tryOnCalls, serverVars>>

\* handleHiddenFileChange(e) with reader.onload, the file input opened by
\* the Try On button: the same for an accepted file.
HandleHiddenFileChange(img) ==
  /\ PhotoAccepted(img)
  /\ userFile' = TRUE
  /\ IF pendingTryOnRef # NoProduct
       THEN /\ timers' = timers \cup {pendingTryOnRef}
            /\ pendingTryOnRef' = NoProduct
       ELSE UNCHANGED <<timers, pendingTryOnRef>>
  /\ UNCHANGED <<processingProduct, results, tryOnCalls, serverVars>>

\* handlePhotoClear()
HandlePhotoClear ==
  /\ userFile
  /\ userFile' = FALSE
  /\ UNCHANGED <<pendingTryOnRef, processingProduct, results, timers, tryOnCalls, serverVars>>

\* The timeout of a scheduled try-on fires: processTryOn(product, file).
TimerFires(product) ==
  /\ product \in timers
  /\ timers' = timers \ {product}
  /\ ProcessTryOn(product, TRUE)
  /\ UNCHANGED <<userFile, results, serverVars>>

\* await fetch(product.image) and blob(): the garment File is built.
GarmentFetched(c) ==
  /\ c \in 1..Len(tryOnCalls)
  /\ tryOnCalls[c].pc = "fetch"
  /\ tryOnCalls' = [tryOnCalls EXCEPT ![c].pc = "create"]
  /\ UNCHANGED <<userFile, pendingTryOnRef, processingProduct, results, timers, serverVars>>

\* await TryOnAPIClient.createSession(...) returns the session id.
SessionCreated(c) ==
  /\ c \in 1..Len(tryOnCalls)
  /\ tryOnCalls[c].pc = "create"
  /\ tryOnCalls' = [tryOnCalls EXCEPT ![c].pc = "poll"]
  /\ UNCHANGED <<userFile, pendingTryOnRef, processingProduct, results, timers, serverVars>>

\* await TryOnAPIClient.pollSessionStatus(...) returns the terminal
\* status; a completed one is stored as the result; then the finally block.
PollReturns(c, status) ==
  /\ c \in 1..Len(tryOnCalls)
  /\ tryOnCalls[c].pc = "poll"
  /\ status \in {"completed", "failed"}
  /\ results' = IF status = "completed"
                  THEN results \cup {tryOnCalls[c].product}
                  ELSE results
  /\ processingProduct' = NoProduct
  /\ tryOnCalls' = [tryOnCalls EXCEPT ![c].pc = "done"]
  /\ UNCHANGED <<userFile, pendingTryOnRef, timers, serverVars>>

\* One of the awaited calls throws: catch, then the finally block.
TryOnThrows(c) ==
  /\ c \in 1..Len(tryOnCalls)
  /\ tryOnCalls[c].pc \in {"fetch", "create", "poll"}
  /\ processingProduct' = NoProduct
  /\ tryOnCalls' = [tryOnCalls EXCEPT ![c].pc = "done"]
  /\ UNCHANGED <<userFile, pendingTryOnRef, results, timers, serverVars>>

\* The demo page: the events of the user and the steps of its calls.
NextDemo ==
  \/ \E p \in Products : HandleTryOn(p)
  \/ \E img \in Images : HandlePhotoSelect(img)
  \/ \E img \in Images : HandleHiddenFileChange(img)
  \/ HandlePhotoClear
  \/ \E p \in Products : TimerFires(p)
  \/ \E c \in 1..MaxCalls : GarmentFetched(c)
  \/ \E c \in 1..MaxCalls : SessionCreated(c)
  \/ \E c \in 1..MaxCalls, st \in {"completed", "failed"} : PollReturns(c, st)
  \/ \E c \in 1..MaxCalls : TryOnThrows(c)

SpecDemo == Init /\ [][NextDemo]_vars

\* ------------------------------------------------------------------ system
\* One step of the create handlers, the workers, the reaper or the clock.
Step ==
  \/ Tick
  \/ \E s \in Sessions, u \in Images, g \in Images : CreateSession(s, u, g)
  \/ \E s \in Sessions : CreateSaveUser(s)
  \/ \E s \in Sessions : CreateSaveGarment(s)
  \/ \E s \in Sessions : CreateSaveFail(s)
  \/ \E s \in Sessions : CreateDispatch(s)
  \/ \E s \in Sessions : CreateRespond(s)
  \/ \E s \in Sessions : WorkerStart(s)
  \/ \E s \in Sessions, r \in DomainReasons : WorkerFailDomain(s, r)
  \/ \E s \in Sessions : WorkerSaveOutput(s)
  \/ \E s \in Sessions : WorkerStorageFail(s)
  \/ \E s \in Sessions : WorkerComplete(s)
  \/ ReaperQuery
  \/ \E e \in rbatch : \E f \in SUBSET e.refs : ReaperDeleteFiles(e, f)
  \/ ReaperDeleteRow
  \/ ReaperFinish

\* A get call reads and answers without any other step in between; every
\* other step of the system may come before or after it.
Next ==
  \/ (lastGet = NoGet /\ Step)
  \/ \E s \in AllIds : Get(s)
  \/ GetReturn

Spec == Init /\ [][Next]_vars

\* The process from its start: the database engine is chosen, then the
\* session subsystem runs over it; the health probe may be called between
\* any two steps.
NextBoot ==
  \/ \E r \in BOOLEAN : Startup(r)
  \/ /\ backend \in Backends
     /\ lastHealth = NoHealth
     /\ Next
  \/ /\ lastGet = NoGet
     /\ \E r \in BOOLEAN : Health(r)
  \/ HealthReturn

SpecBoot == InitBoot /\ [][NextBoot]_vars

\* The periodic cleanup task keeps running: whenever one of its steps stays
\* possible it is eventually taken.
ReaperFairness ==
  /\ WF_vars(ReaperQuery)
  /\ WF_vars(\E e \in rbatch : \E f \in SUBSET e.refs : ReaperDeleteFiles(e, f))
  /\ WF_vars(ReaperDeleteRow)
  /\ WF_vars(ReaperFinish)

SpecFair == Spec /\ ReaperFairness

\* The background worker keeps running and the transform returns: a worker
\* step of a session that stays possible is eventually taken, whatever the
\* get calls, the other workers and the reaper do meanwhile.
WorkerFairness ==
  \A s \in Sessions :
    /\ WF_vars(WorkerStart(s))
    /\ WF_vars(\/ \E r \in DomainReasons : WorkerFailDomain(s, r)
               \/ WorkerSaveOutput(s)
               \/ WorkerStorageFail(s))
    /\ WF_vars(WorkerComplete(s))

\* The get calls are left out: they change nothing the workers read.
SpecWorkerFair == Init /\ [][Step]_vars /\ WorkerFairness

\* The system without status queries, in which the reaper may also stop in
\* the middle of a run.
NextCrash == Step \/ ReaperCrash

SpecCrash == Init /\ [][NextCrash]_vars

\* ================================================================ claims

\* C1: the status of a session only moves created -> processing ->
\* completed or created -> processing -> failed. A row appears with status
\* created, for an id that never had a row; every later change of status
\* is one of the three forward steps; nothing goes backward or skips
\* processing.
C1_StatusSequence ==
  [][\A s \in Sessions :
       /\ (store[s] = NoRow /\ store'[s] # NoRow)
            => (store'[s].status = "created" /\ cpc[s] = "idle")
       /\ (store[s] # NoRow /\ store'[s] # NoRow /\ store'[s].status # store[s].status)
            => <<store[s].status, store'[s].status>> \in
                 { <<"created", "processing">>,
                   <<"processing", "completed">>,
                   <<"processing", "failed">> }]_vars

\* C1 witness: one session went all the way to completed, another to failed.
C1_Witness ==
  \E s, t \in Sessions :
    /\ store[s] # NoRow /\ store[s].status = "completed"
    /\ store[t] # NoRow /\ store[t].status = "failed"

\* C2: in every state, for every row, output_image_ref is non-null if and
\* only if status = completed.
C2_OutputIffCompleted ==
  \A s \in Sessions :
    store[s] # NoRow =>
      ((store[s].output_image_ref # NULL_REF) <=> (store[s].status = "completed"))

\* C2 witness: a completed row holding its output reference.
C2_Witness ==
  \E s \in Sessions :
    /\ store[s] # NoRow
    /\ store[s].status = "completed"
    /\ store[s].output_image_ref = Ref(s, "output", "jpg")

\* C3: in every state, for every row, error_reason is non-null if and only
\* if status = failed.
C3_ErrorIffFailed ==
  \A s \in Sessions :
    store[s] # NoRow =>
      ((store[s].error_reason # NULL_TEXT) <=> (store[s].status = "failed"))

\* C3 witness: a row failed by a storage error and holding its reason.
C3_Witness ==
  \E s \in Sessions :
    /\ store[s] # NoRow
    /\ store[s].status = "failed"
    /\ store[s].error_reason = GenericStorageReason

\* C4: completed and failed are terminal. Once a row is completed or
\* failed, no step changes its status, output_image_ref or error_reason
\* for as long as the row exists: there is no retry.
C4_TerminalIsFinal ==
  [][\A s \in Sessions :
       (/\ store[s] # NoRow
        /\ store[s].status \in {"completed", "failed"}
        /\ store'[s] # NoRow)
         => /\ store'[s].status = store[s].status
            /\ store'[s].output_image_ref = store[s].output_image_ref
            /\ store'[s].error_reason = store[s].error_reason]_vars

\* C4 witness: a failed session whose worker has finished is read by a
\* later get, which still finds it failed.
C4_Witness ==
  \E s \in Sessions :
    /\ store[s] # NoRow /\ store[s].status = "failed"
    /\ wpc[s] = "done"
    /\ lastGet.kind = "ok" /\ lastGet.id = s /\ lastGet.status = "failed"

\* C5: a create call in which either upload is oversized, of a type
\* outside jpg/jpeg/png/webp, or undecodable answers ValidationError and
\* leaves the store and the storage unchanged.
C5_ValidationFailsFast ==
  [][nextId' # nextId =>
       \A s \in Sessions, u \in Images, g \in Images :
         (/\ \E img \in {u, g} :
               \/ img.size > 10 * 1024 * 1024
               \/ img.type \notin {"jpg", "jpeg", "png", "webp"}
               \/ ~img.decodes
          /\ CreateSession(s, u, g))
           => /\ createResp'[s] = "ValidationError"
              /\ store' = store
              /\ storage' = storage]_vars

\* C5 witness: a create call was rejected; no row and no asset of it exist.
C5_Witness ==
  \E s \in Sessions :
    /\ createResp[s] = "ValidationError"
    /\ store[s] = NoRow
    /\ \A ref \in storage : ref[1] # s

\* C6: a processing failure never becomes a failure of create. Whenever a
\* session is failed, its create call has answered created or is about to
\* (the response is enabled); the failure shows as status failed with an
\* error_reason in a get.
C6_ProcessingFailureNotSync ==
  \A s \in Sessions :
    (store[s] # NoRow /\ store[s].status = "failed") =>
      /\ createResp[s] \in {"none", "created"}
      /\ createResp[s] = "none" => ENABLED CreateRespond(s)
      /\ (lastGet.kind = "ok" /\ lastGet.id = s) =>
           (lastGet.status = "failed" /\ lastGet.error_reason # NULL_TEXT)

\* C6 witness: create answered created, the worker failed, a get shows it.
C6_Witness ==
  \E s \in Sessions :
    /\ createResp[s] = "created"
    /\ lastGet.kind = "ok" /\ lastGet.id = s
    /\ lastGet.status = "failed"
    /\ lastGet.error_reason \in FailureReasons

\* C7: create answers {session_id, status created} without waiting for the
\* worker: once the row and the uploads are written and the session id is
\* handed to the worker, the response is enabled whatever the position of
\* the worker.
C7_CreateDoesNotWait ==
  \A s \in Sessions :
    cpc[s] = "dispatched" => ENABLED CreateRespond(s)

\* C7 witness: create has answered and the session is still created, its
\* worker not yet started.
C7_Witness ==
  \E s \in Sessions :
    /\ createResp[s] = "created"
    /\ store[s] # NoRow /\ store[s].status = "created"
    /\ wpc[s] = "queued"

\* C8: when create ends with a failure to persist an input asset, the
\* store holds no row for that session id.
C8_RowRemovedOnSaveFailure ==
  \A s \in Sessions :
    createResp[s] = "StorageError" => store[s] = NoRow

\* C8 witness: persisting the garment image failed after the row and the
\* user image were written.
C8_Witness ==
  \E s \in Sessions :
    /\ createResp[s] = "StorageError"
    /\ Ref(s, "user", "jpg") \in storage

\* C9: get answers NotFoundError exactly when the store holds no row with
\* that id.
C9_NotFoundIffNoRow ==
  lastGet.kind # "none" =>
    ((lastGet.kind = "NotFoundError")
       <=> (lastGet.id \notin Sessions \/ store[lastGet.id] = NoRow))

\* C9 witness: the id of a session that was created, expired and was
\* deleted by the reaper is queried again.
C9_Witness ==
  /\ lastGet.kind = "NotFoundError"
  /\ lastGet.id \in Sessions
  /\ createResp[lastGet.id] = "created"

\* C10: the progress_message of a get is one of four fixed strings and is
\* determined by the status alone: two successive answers carry the same
\* message exactly when they carry the same status.
C10_ProgressMessageByStatus ==
  [][/\ lastGet'.kind = "ok" =>
          lastGet'.progress_message \in
            { "Session created, waiting for processing...",
              "AI is processing your try-on...",
              "Try-on completed successfully!",
              "Processing failed. Please try again." }
     /\ (lastGet.kind = "ok" /\ lastGet'.kind = "ok") =>
          ((lastGet.status = lastGet'.status)
             <=> (lastGet.progress_message = lastGet'.progress_message))]_vars

\* C10 witness: two failed sessions with different error reasons, one of
\* them just read.
C10_Witness ==
  \E s, t \in Sessions :
    /\ store[s] # NoRow /\ store[s].status = "failed"
    /\ store[t] # NoRow /\ store[t].status = "failed"
    /\ store[s].error_reason # store[t].error_reason
    /\ lastGet.kind = "ok" /\ lastGet.id = s

\* C11: after one complete reaper run, every session the run's query
\* matched (expires_at before the run's now) is absent from the store and
\* none of the asset references its row held is still in the storage.
C11_ReaperRunCleans ==
  [][(rpc = "run" /\ rpc' = "idle" /\ rbatch = {} /\ rcur = 0) =>
       \A e \in rmatched :
         /\ store'[e.sid] = NoRow
         /\ e.refs \cap storage' = {}]_vars

\* C12: the reaper is idempotent. In the state a complete run leaves, the
\* query of a second run over the same expired set matches none of the
\* sessions the first run matched, and the steps of a run that matched
\* nothing change neither the store nor the storage.
C12_ReaperIdempotent ==
  [][/\ (rpc = "run" /\ rpc' = "idle" /\ rbatch = {} /\ rcur = 0) =>
          \A e \in ExpiredRows' : e.sid \notin {m.sid : m \in rmatched}
     /\ (rpc = "run" /\ rmatched = {} /\ (rpc' # rpc \/ rcur' # rcur)) =>
          (store' = store /\ storage' = storage)]_vars

\* C12 witness: a reaper run that matched nothing is under way after an
\* earlier run deleted the row of a session and failed to delete one of
\* its files.
C12_Witness ==
  /\ rpc = "run"
  /\ rmatched = {}
  /\ \E s \in Sessions :
       /\ createResp[s] = "created"
       /\ store[s] = NoRow
       /\ \E ref \in storage : ref[1] = s

\* C13: no orphan files. In every state, a session whose row the reaper
\* has deleted has no asset left in the storage, also when a file delete
\* failed during the run.
C13_NoOrphanFiles ==
  \A s \in Sessions :
    (createResp[s] = "created" /\ store[s] = NoRow) =>
      \A ref \in storage : ref[1] # s

\* C14: startup always ends with a usable store. Whether or not the
\* primary engine can be reached, startup is enabled and leaves the
\* process with one of the two engines; no state is reached in which the
\* process has failed to start.
C14_StartupNeverFails ==
  /\ backend \in {"none", "postgresql", "sqlite"}
  /\ backend = "none" => \A r \in BOOLEAN : ENABLED Startup(r)

\* C14 witness: the primary engine was unreachable, the process runs on
\* the fallback and has completed a session on it.
C14_Witness ==
  /\ backend = "sqlite"
  /\ \E s \in Sessions : store[s] # NoRow /\ store[s].status = "completed"

\* C15: the engine chosen at startup never changes afterwards, and every
\* health answer reports that engine as its type.
C15_BackendChosenOnce ==
  [][/\ backend # "none" => backend' = backend
     /\ lastHealth'.kind = "ok" => lastHealth'.type = backend']_vars

\* C15 witness: a process on the fallback engine that has created a
\* session answers a health call with type sqlite.
C15_Witness ==
  /\ backend = "sqlite"
  /\ lastHealth.kind = "ok" /\ lastHealth.type = "sqlite"
  /\ \E s \in Sessions : store[s] # NoRow

C18_SingleDispatch ==
  [][\A s \in Sessions :
       /\ (wpc'[s] = "queued" /\ wpc[s] # "queued") =>
            (wpc[s] = "none" /\ cpc[s] = "garment" /\ cpc'[s] = "dispatched")
       /\ (wpc[s] # "none") => (wpc'[s] # "none")
       /\ (createResp'[s] = "created") => (wpc'[s] # "none")
       /\ (createResp'[s] \in {"ValidationError", "StorageError"}) => (wpc'[s] = "none")]_vars

\* C18 witness: the worker of a created session has run to its end, and a
\* rejected create call has no worker.
C18_Witness ==
  \E s, t \in Sessions :
    /\ createResp[s] = "created" /\ wpc[s] = "done"
    /\ createResp[t] = "ValidationError" /\ wpc[t] = "none"

\* C19: the error_reason of a failed session is the generic storage reason
\* or one of the simulated domain reasons, in the row and in every get
\* answer.
C19_ReasonInFixedSet ==
  /\ \A s \in Sessions :
       (store[s] # NoRow /\ store[s].status = "failed") =>
         store[s].error_reason \in
           {"Processing failed due to a storage error", "Unable to detect person in image"}
  /\ (lastGet.kind = "ok" /\ lastGet.error_reason # NULL_TEXT) =>
       lastGet.error_reason \in
         {"Processing failed due to a storage error", "Unable to detect person in image"}

\* C19 witness: a get answer carrying the simulated domain reason.
C19_Witness ==
  /\ lastGet.kind = "ok"
  /\ lastGet.status = "failed"
  /\ lastGet.error_reason = "Unable to detect person in image"

\* C20: assets are never crossed between sessions. The references two
\* create handlers hold and the references two rows hold are disjoint, and
\* every URL of a get answer names the session id that was asked for and
\* is the URL of no asset of another session.
C20_NoCrossSessionAssets ==
  /\ \A s, t \in Sessions :
       s # t =>
         /\ ({creq[s].user, creq[s].garment} \cap {creq[t].user, creq[t].garment})
               \subseteq {NULL_REF}
         /\ (store[s] # NoRow /\ store[t] # NoRow) =>
               RowRefs(store[s]) \cap RowRefs(store[t]) = {}
  /\ lastGet.kind = "ok" =>
       \A url \in {lastGet.user_image_url, lastGet.garment_image_url,
                   lastGet.output_image_url} \ {NULL_REF} :
         /\ url[3] = lastGet.id
         /\ \A t \in Sessions \ {lastGet.id} :
              store[t] # NoRow => url \notin {ToUrl(r) : r \in RowRefs(store[t])}

\* C20 witness: two completed sessions, one of them just read with its
\* output URL.
C20_Witness ==
  \E s, t \in Sessions :
    /\ s # t
    /\ store[s] # NoRow /\ store[s].status = "completed"
    /\ store[t] # NoRow /\ store[t].status = "completed"
    /\ lastGet.kind = "ok" /\ lastGet.id = s
    /\ lastGet.output_image_url # NULL_REF

C22_ExpiredEventuallyGone ==
  \A s \in Sessions :
    (store[s] # NoRow /\ store[s].expires_at < now)
      ~> (store[s] = NoRow /\ \A ref \in storage : ref[1] # s)

\* C23: whatever the interleaving of get with the steps of the worker, a
\* get answer has one of the four statuses, a non-null output_image_url
\* when it is completed and a non-null error_reason when it is failed.
C23_GetSeesAtomicTransitions ==
  lastGet.kind = "ok" =>
    /\ lastGet.status \in {"created", "processing", "completed", "failed"}
    /\ lastGet.status = "completed" => lastGet.output_image_url # NULL_REF
    /\ lastGet.status = "failed" => lastGet.error_reason # NULL_TEXT

\* C23 witness: a get answered between the saving of the output file and
\* the terminal write of the worker: it shows processing and no output.
C23_Witness ==
  /\ lastGet.kind = "ok"
  /\ lastGet.status = "processing"
  /\ lastGet.output_image_url = NULL_REF
  /\ wpc[lastGet.id] = "saved"
  /\ Ref(lastGet.id, "output", "jpg") \in storage

\* C24: when the reaper has deleted the row of a session that was still
\* processing and has finished its run, and the worker then finishes too,
\* no output asset of that session is left in the storage.
C24_NoAssetAfterRace ==
  [][\A s \in Sessions :
       (/\ createResp[s] = "created"
        /\ store[s] = NoRow
        /\ rpc = "idle"
        /\ wpc[s] \in {"started", "saved"}
        /\ wpc'[s] = "done")
         => \A ref \in storage' : ref[1] = s => ref[2] # "output"]_vars

\* C25: a row the reaper has deleted stays absent, also when the worker of
\* that session performs its terminal write afterwards, and every get for
\* that id answers NotFoundError.
C25_DeletedRowStaysAbsent ==
  [][\A s \in Sessions :
       (createResp[s] = "created" /\ store[s] = NoRow) =>
         /\ store'[s] = NoRow
         /\ (lastGet'.kind # "none" /\ lastGet'.id = s) => lastGet'.kind = "NotFoundError"]_vars

\* C25 witness: the row of a session is gone while its worker has saved
\* the output and not yet written the terminal state, and a get for the id
\* answers NotFoundError.
C25_Witness ==
  \E s \in Sessions :
    /\ createResp[s] = "created"
    /\ store[s] = NoRow
    /\ wpc[s] = "saved"
    /\ lastGet.kind = "NotFoundError" /\ lastGet.id = s

\* C26: a failed file delete does not abort the batch. The step that deletes
\* the files of a session leaves the run going and the batch as it was,
\* whatever it failed to delete, and the run ends only when the batch is
\* empty and the row of every matched session is deleted.
C26_FailedDeleteKeepsBatchGoing ==
  [][/\ (rpc = "run" /\ rcur = 0 /\ rcur' # 0) =>
          (rpc' = "run" /\ rbatch' = rbatch)
     /\ (rpc = "run" /\ rpc' = "idle") =>
          /\ rbatch = {}
          /\ rcur = 0
          /\ \A e \in rmatched : store'[e.sid] = NoRow]_vars

\* C26 witness: in one run a file delete failed for a session, whose row is
\* deleted all the same, and another session of the batch is fully cleaned.
C26_Witness ==
  /\ rpc = "run"
  /\ \E e, o \in rmatched :
       /\ e.sid # o.sid
       /\ store[e.sid] = NoRow
       /\ e.refs \cap storage # {}
       /\ store[o.sid] = NoRow
       /\ o.refs \cap storage = {}

\* C27: a reaper run matches exactly the rows with expires_at < now and
\* changes nothing else: the query changes neither store nor storage, and
\* a delete step of the run leaves the row and the files of every session
\* the query did not match as they were.
C27_ReaperLeavesOthersAlone ==
  [][/\ (rpc = "idle" /\ rpc' = "run") =>
          /\ store' = store
          /\ storage' = storage
          /\ {m.sid : m \in rmatched'}
               = {s \in Sessions : store[s] # NoRow /\ store[s].expires_at < now}
     /\ (rpc = "run" /\ (rcur' # rcur \/ rpc' # rpc)) =>
          \A s \in Sessions \ {m.sid : m \in rmatched} :
            /\ store'[s] = store[s]
            /\ {ref \in storage' : ref[1] = s} = {ref \in storage : ref[1] = s}]_vars

\* C27 witness: a run has deleted an expired session while a session that
\* has not expired keeps its row and its uploads.
C27_Witness ==
  /\ rpc = "run"
  /\ \E m \in rmatched : store[m.sid] = NoRow
  /\ \E t \in Sessions \ {m.sid : m \in rmatched} :
       /\ store[t] # NoRow
       /\ store[t].expires_at >= now
       /\ {store[t].user_image_ref, store[t].garment_image_ref} \subseteq storage

\* C28: a run that stops before its end is made good by the next complete
\* run. Every matched session a stopped run has not deleted is matched
\* again by the next query, and a complete run ends with the row of every
\* matched session deleted and no file of it left, apart from the files
\* whose delete failed in that run.
C28_CrashThenRunCleans ==
  [][/\ (rpc = "run" /\ rpc' = "idle" /\ ~(rbatch = {} /\ rcur = 0)) =>
          \A e \in rmatched :
            store'[e.sid] # NoRow => e.sid \in {x.sid : x \in ExpiredRows'}
     /\ (rpc = "run" /\ rpc' = "idle" /\ rbatch = {} /\ rcur = 0) =>
          \A e \in rmatched :
            /\ store'[e.sid] = NoRow
            /\ Cardinality(e.refs \cap storage') <= MaxFailingDeletes]_vars

\* C28 witness: a run meets a session whose files an earlier, stopped run
\* deleted and whose row is still there.
C28_Witness ==
  /\ rpc = "run"
  /\ rcur = 0
  /\ \E e \in rbatch :
       /\ e.refs # {}
       /\ e.refs \cap storage = {}
       /\ store[e.sid] # NoRow

\* C29: a worker is dispatched only for a session whose created row and
\* both uploads are written; a create call that fails validation or asset
\* persistence dispatches none; no worker step runs for an id that never
\* had a row.
C29_DispatchAfterRowAndAssets ==
  [][\A s \in Sessions :
       /\ (wpc[s] = "none" /\ wpc'[s] # "none") =>
            /\ store[s] # NoRow
            /\ store[s].status = "created"
            /\ {store[s].user_image_ref, store[s].garment_image_ref} \subseteq storage
       /\ (createResp'[s] \in {"ValidationError", "StorageError"}) => wpc'[s] = "none"
       /\ (wpc'[s] # wpc[s]) =>
            (cpc[s] \in {"garment", "dispatched", "done"}
               /\ createResp[s] \notin {"ValidationError", "StorageError"})]_vars

\* C29 witness: a queued worker whose session has its row and both uploads,
\* next to a create call that failed to persist an upload and has no worker.
C29_Witness ==
  \E s, t \in Sessions :
    /\ wpc[s] = "queued"
    /\ store[s] # NoRow /\ store[s].status = "created"
    /\ {store[s].user_image_ref, store[s].garment_image_ref} \subseteq storage
    /\ createResp[t] = "StorageError" /\ wpc[t] = "none"

\* C30: a storage error during processing makes the worker write failed
\* with the generic reason and no output; the session does not stay
\* processing, and a failed session is never marked completed afterwards.
C30_StorageErrorFailsSession ==
  [][\A s \in Sessions :
       /\ (wpc[s] = "started" /\ wpc'[s] = "done" /\ store[s] # NoRow
             /\ WorkerStorageFail(s)) =>
            /\ store'[s].status = "failed"
            /\ store'[s].error_reason = "Processing failed due to a storage error"
            /\ store'[s].output_image_ref = NULL_REF
       /\ (store[s] # NoRow /\ store[s].status = "failed" /\ store'[s] # NoRow) =>
            store'[s].status = "failed"]_vars

\* C30 witness: a session failed with the generic reason, its worker at its
\* end and no output file written.
C30_Witness ==
  \E s \in Sessions :
    /\ store[s] # NoRow
    /\ store[s].status = "failed"
    /\ store[s].error_reason = "Processing failed due to a storage error"
    /\ wpc[s] = "done"
    /\ Ref(s, "output", "jpg") \notin storage

\* C32: get is read-only. A step of a get call, the read or the return of
\* its answer, leaves every row, every stored file, the position of every
\* worker, of every create handler and of the reaper, and the clock
\* unchanged: what the workers do next does not depend on any get call.
C32_GetIsReadOnly ==
  [][lastGet' # lastGet =>
       UNCHANGED <<now, nextId, store, storage, cpc, creq, createResp, wpc, rpc,
                   rbatch, rcur, rmatched, backend>>]_vars

\* C32 witness: a get call has read an expired session that a worker is
\* still processing, its answer is being returned.
C32_Witness ==
  \E s \in Sessions :
    /\ lastGet # NoGet /\ lastGet.id = s /\ lastGet.kind = "ok"
    /\ lastGet.status = "processing"
    /\ wpc[s] \in {"started", "saved"}
    /\ Expired(store[s])

\* C34: the fields set at creation never change. For every row that exists
\* before and after a step, user_image_ref, garment_image_ref, created_at
\* and expires_at are the same, under the same id; a step can change only
\* status, output_image_ref and error_reason.
C34_CreationFieldsImmutable ==
  [][\A s \in Sessions :
       (store[s] # NoRow /\ store'[s] # NoRow) =>
         /\ store'[s].user_image_ref    = store[s].user_image_ref
         /\ store'[s].garment_image_ref = store[s].garment_image_ref
         /\ store'[s].created_at        = store[s].created_at
         /\ store'[s].expires_at        = store[s].expires_at]_vars

\* C34 witness: a row written by the worker at a later hour than its
\* creation still carries the references and times of its creation.
C34_Witness ==
  \E s \in Sessions :
    /\ store[s] # NoRow
    /\ store[s].status \in {"completed", "failed"}
    /\ now > store[s].created_at
    /\ store[s].user_image_ref[1] = s
    /\ store[s].expires_at = store[s].created_at + SESSION_EXPIRY_HOURS

\* C35: in every state every row has expires_at = created_at + TTL with a
\* positive TTL, hence expires_at > created_at.
C35_ExpiresAfterCreated ==
  /\ SESSION_EXPIRY_HOURS > 0
  /\ \A s \in Sessions :
       store[s] # NoRow =>
         /\ store[s].expires_at = store[s].created_at + SESSION_EXPIRY_HOURS
         /\ store[s].expires_at > store[s].created_at

\* C35 witness: a row created after the clock has advanced.
C35_Witness ==
  \E s \in Sessions :
    /\ store[s] # NoRow
    /\ store[s].created_at > 0
    /\ store[s].expires_at > store[s].created_at

\* C36: a worker step of one session leaves the row and the stored files
\* of every other session unchanged, whatever the other workers are doing.
C36_WorkersIndependent ==
  [][\A s \in Sessions :
       (wpc[s] \in {"queued", "started", "saved"} /\ wpc'[s] # wpc[s]) =>
         \A t \in Sessions \ {s} :
           /\ store'[t] = store[t]
           /\ {r \in storage' : r[1] = t} = {r \in storage : r[1] = t}
           /\ wpc'[t] = wpc[t]]_vars

\* C36 witness: two sessions are being processed at the same time.
C36_Witness ==
  \E s, t \in Sessions :
    /\ s # t
    /\ wpc[s] \in {"started", "saved"}
    /\ wpc[t] \in {"started", "saved"}
    /\ store[s] # NoRow /\ store[t] # NoRow

\* C33 as stated: in every state every row present has both its user and
\* its garment input file in storage.
C33_RowHasInputs_AsStated ==
  \A s \in Sessions :
    store[s] # NoRow =>
      /\ store[s].user_image_ref \in storage
      /\ store[s].garment_image_ref \in storage

\* C33: in every state every row present that has not expired and whose
\* create call has returned has both its user and its garment input file
\* in storage, also while other create calls and the reaper are at work.
C33_RowHasInputs ==
  \A s \in Sessions :
    (store[s] # NoRow /\ cpc[s] = "done" /\ ~Expired(store[s])) =>
      /\ store[s].user_image_ref \in storage
      /\ store[s].garment_image_ref \in storage

\* C33 witness: the reaper has deleted the files of an expired session and
\* not yet its row, while another row, unexpired, has both its inputs.
C33_Witness ==
  \E s, t \in Sessions :
    /\ store[s] # NoRow /\ cpc[s] = "done" /\ ~Expired(store[s])
    /\ store[s].user_image_ref \in storage
    /\ store[s].garment_image_ref \in storage
    /\ rpc = "run" /\ rcur = t /\ store[t] # NoRow
    /\ store[t].user_image_ref \notin storage

\* C31: under fair scheduling of the worker, with a transform that returns,
\* every session whose create call answered created is eventually reaped
\* or Completed or Failed: a get of it eventually answers not found or a
\* terminal status, at which the polling client stops.
C31_PollingTerminates ==
  \A s \in Sessions :
    (createResp[s] = "created") ~>
      (\/ GetSession(s).kind = "NotFoundError"
       \/ GetSession(s).status \in {"completed", "failed"})

\* C31 witness: a created session whose worker has finished; a get of it
\* answers completed.
C31_Witness ==
  \E s \in Sessions :
    /\ createResp[s] = "created"
    /\ wpc[s] = "done"
    /\ GetSession(s).kind = "ok"
    /\ GetSession(s).status = "completed"

\* C37: the demo page runs one try-on at a time: in every state at most
\* one processTryOn call is between its start and the end of its polling.
C37_OneTryOnAtATime ==
  Cardinality(InFlight) <= 1

\* C38: a product is shown as processing for the whole time its try-on is
\* in flight: for every processTryOn call between its start and the end of
\* its polling, processingProduct is the id of the product of the call.
C38_ProcessingShownWhileInFlight ==
  \A c \in InFlight : processingProduct = tryOnCalls[c].product

====
